---- MODULE Spec2Model ----
(***************************************************************************)
(* Model of lfshook.go: a logrus hook that writes each log entry to a file *)
(* (or an io.Writer) and splits every file into size-bounded segments with *)
(* a bounded chain of numbered backups  path.1 .. path.FdMaxLen.           *)
(*                                                                         *)
(* The file system is a table of names (base path and numbered backups of  *)
(* each path) pointing at inodes; an open descriptor is the inode it was   *)
(* opened on, so a descriptor keeps following its file through renames.    *)
(* Every filesystem call and the formatter may fail; the number of         *)
(* failures injected in one behaviour is bounded by MaxFaults.  os.Stat    *)
(* succeeds exactly when the file exists.  The formatter is a length: the  *)
(* number of bytes it renders the entry to.                                *)
(*                                                                         *)
(* Spec is the hook with at most MaxFaults failing calls.  LiveSpec is the *)
(* hook on a path whose renames fail for as long as it runs, with the      *)
(* fairness of the Go scheduler and of sync.Mutex.                         *)
(***************************************************************************)
EXTENDS Integers, Sequences, FiniteSets, TLC

\* ---------------------------------------------------------------- bounds
\* Fire calls started in one behaviour.
MaxFires == 3
\* Failing filesystem / formatter calls injected in one behaviour.
MaxFaults == 1
\* Largest maxsz[0] (max file size) handed to NewLfsHook.
MaxSizeArg == 1
\* Largest maxsz[1] (max backup count) handed to NewLfsHook.
MaxLenArg == 2

\* ---------------------------------------------------------------- values
Threads == {"t1", "t2"}
Levels == {"error", "info"}
Paths == {"a.log", "b.log"}
Writers == {"w1", "w2"}
\* The arguments SetDefaultPath and SetDefaultWriter are called with.
SetPaths == {"b.log"}
SetWriters == {"w2"}
\* The lengths, in bytes, the formatter renders a record to.
RecSizes == {1, 2}
MaxRecSize == CHOOSE n \in RecSizes : \A m \in RecSizes : m <= n

NoThread == "none"
NoPath == "nopath"
NoWriter == "nowriter"
\* A nil *os.File.
NilFd == 0
\* A name that is bound to no file.
Absent == 0
\* The suffix of the base path itself; path.i has suffix i.
Base == 0
\* The entry of hook.fls for a level that has no handle.
NoFe == [path |-> NoPath, fd |-> NilFd, ln |-> 0]

\* FdMaxLen and FdMaxSize defaults of NewLfsHook.
DefaultFdMaxLen == 10
DefaultFdMaxSize == 1024 * 1024 * 10

VARIABLES
    \* LfsHook fields
    paths,            \* PathMap: [Levels -> Paths \cup {NoPath}]
    pathsSet,         \* hook.paths != nil
    writers,          \* WriterMap: [Levels -> Writers \cup {NoWriter}]
    writersSet,       \* hook.writers != nil
    defaultPath, hasDefaultPath,
    defaultWriter, hasDefaultWriter,
    FdMaxLen, FdMaxSize,
    lock,             \* hook.lock: the thread holding it, or NoThread
    flk,              \* hook.flk: the thread holding it, or NoThread
    fls,              \* hook.fls: [Levels -> lfsFile record, NoFe for an unregistered level]
    lk,               \* lfsFile.lk of the handle of each level
    \* file system and sinks
    names,            \* [Paths -> [0..MaxSuffix -> inode or Absent]]
    isize,            \* size of every inode ever created, by inode number
    dirs,             \* paths whose parent directory exists
    sink,             \* [Writers -> bytes received]
    \* each thread's position in Fire
    pc, lvl, dst, msg, ret,
    \* history
    fires, faults,
    preSize,          \* size of the file found at a.log at construction, -1 for none
    rolls,            \* roll-over branches taken so far
    rotated,          \* [Paths -> sequence of inodes renamed from the base path to a backup]
    openSize,         \* per level: size read by the handle's last ensure-open
    written,          \* per level: bytes written through the handle since that ensure-open
    rolled            \* per thread: the running fileCheck renamed the base path away

hookVars == <<paths, pathsSet, writers, writersSet, defaultPath, hasDefaultPath,
              defaultWriter, hasDefaultWriter, FdMaxLen, FdMaxSize>>
lockVars == <<lock, flk, lk>>
fsVars == <<names, isize, dirs>>
threadVars == <<pc, lvl, dst, msg, ret>>
histVars == <<fires, faults, preSize, rolls, rotated, openSize, written, rolled>>
vars == <<hookVars, lockVars, fls, fsVars, sink, threadVars, histVars>>

\* Suffixes the name table tracks: one more than any backup the hook may keep.
MaxSuffix == MaxLenArg + 1

\* ------------------------------------------------------- the file system
\* os.Stat(name) finds a file.
Exists(fsn, path, i) == fsn[path][i] # Absent

\* os.Rename(path.from, path.to): fails (and changes nothing) when the call
\* fails or the source is missing; otherwise replaces the target.
Rename(fsn, path, from, to, ok) ==
    IF ok /\ Exists(fsn, path, from)
      THEN [fsn EXCEPT ![path] = [@ EXCEPT ![to] = fsn[path][from], ![from] = Absent]]
      ELSE fsn

\* os.RemoveAll(path.i)
RemoveAll(fsn, path, i, ok) ==
    IF ok THEN [fsn EXCEPT ![path] = [@ EXCEPT ![i] = Absent]] ELSE fsn

RECURSIVE BakLenFrom(_, _, _, _)
BakLenFrom(fsn, path, i, maxlen) ==
    IF i > maxlen THEN 0
    ELSE IF Exists(fsn, path, i) THEN 1 + BakLenFrom(fsn, path, i + 1, maxlen)
    ELSE 0

\* A scan that starts at suffix 0, the base path itself.
fileBakLenFromZero(fsn, path, maxlen) == BakLenFrom(fsn, path, 0, maxlen)

\* fileBakLen: the number of backups path.1, path.2, ... up to the first gap.
fileBakLen(fsn, path, maxlen) == BakLenFrom(fsn, path, 1, maxlen)

RECURSIVE BakMoveFrom(_, _, _, _, _)
BakMoveFrom(fsn, path, i, maxlen, mvBad) ==
    IF i >= maxlen THEN fsn
    ELSE BakMoveFrom(Rename(fsn, path, i + 1, i, i \notin mvBad), path, i + 1, maxlen, mvBad)

\* A move that removes path.1 and shifts nothing.
fileBakMoveNoShift(fsn, path, maxlen, rmOk, mvBad) == RemoveAll(fsn, path, 1, rmOk)

\* fileBakMove: remove path.1, then rename path.(i+1) to path.i for i = 1..maxlen-1.
\* rmOk: the RemoveAll succeeds; mvBad: the i whose rename fails.
fileBakMove(fsn, path, maxlen, rmOk, mvBad) ==
    BakMoveFrom(RemoveAll(fsn, path, 1, rmOk), path, 1, maxlen, mvBad)

\* A target that is not capped at the end of the chain.
RollTargetNoCap(ln, maxlen) == ln + 1

\* The suffix the roll-over renames the base path to.
RollTarget(ln, maxlen) == IF ln >= maxlen THEN ln ELSE ln + 1

\* The roll-over branch of fileCheck on the name table.
RollOverNames(fsn, path, maxlen, rmOk, mvBad, baseOk) ==
    LET ln == fileBakLen(fsn, path, maxlen) IN
    Rename(IF ln >= maxlen THEN fileBakMove(fsn, path, maxlen, rmOk, mvBad) ELSE fsn,
           path, Base, RollTarget(ln, maxlen), baseOk)

\* ------------------------------------------------------------ resolution
\* ioWrite: the writer of a level, NoWriter when the record is dropped.
ResolveWriter(level) ==
    IF writersSet /\ writers[level] # NoWriter THEN writers[level]
    ELSE IF hasDefaultWriter THEN defaultWriter
    ELSE NoWriter

\* A lookup that prefers the default path to the entry of the level.
ResolvePathDefaultFirst(level) ==
    IF hasDefaultPath THEN defaultPath
    ELSE IF pathsSet /\ paths[level] # NoPath THEN paths[level]
    ELSE NoPath

\* fileWrite: the path of a level that has no handle yet, NoPath when dropped.
ResolvePath(level) ==
    IF pathsSet /\ paths[level] # NoPath THEN paths[level]
    ELSE IF hasDefaultPath THEN defaultPath
    ELSE NoPath

\* ----------------------------------------------------------- construction
\* The outputs NewLfsHook is given: a path, a writer, a PathMap or a WriterMap.
Outputs ==
    { [kind |-> "string", path |-> "a.log"],
      [kind |-> "Writer", writer |-> "w1"],
      [kind |-> "PathMap", map |-> [l \in Levels |-> IF l = "error" THEN "a.log" ELSE NoPath]],
      [kind |-> "WriterMap", map |-> [l \in Levels |-> IF l = "error" THEN "w1" ELSE NoWriter]] }

\* Sizes the file at a.log may have before the hook is constructed (-1: no file):
\* within the size limit, and beyond the limit by more than one record.
PreSizes == {-1, MaxSizeArg, MaxSizeArg + MaxRecSize + 1}

NewFdMaxSize(maxsz) == IF Len(maxsz) > 0 /\ maxsz[1] > 0 THEN maxsz[1] ELSE DefaultFdMaxSize
NewFdMaxLen(maxsz) == IF Len(maxsz) > 1 /\ maxsz[2] > 0 THEN maxsz[2] ELSE DefaultFdMaxLen

NoNames == [p \in Paths |-> [i \in 0..MaxSuffix |-> Absent]]

Init ==
    \E output \in Outputs, maxsz \in {MaxSizeArg} \X (1..MaxLenArg), pre \in PreSizes :
        \* a hook that writes to io.Writers is started on the empty file system only
        /\ output.kind \in {"Writer", "WriterMap"} => pre = -1 /\ maxsz[2] = MaxLenArg
        /\ preSize = pre
        /\ paths = IF output.kind = "PathMap" THEN output.map ELSE [l \in Levels |-> NoPath]
        /\ pathsSet = (output.kind = "PathMap")
        /\ writers = IF output.kind = "WriterMap" THEN output.map ELSE [l \in Levels |-> NoWriter]
        /\ writersSet = (output.kind = "WriterMap")
        /\ defaultPath = IF output.kind = "string" THEN output.path ELSE NoPath
        /\ hasDefaultPath = (output.kind = "string")
        /\ defaultWriter = IF output.kind = "Writer" THEN output.writer ELSE NoWriter
        /\ hasDefaultWriter = (output.kind = "Writer")
        /\ FdMaxSize = NewFdMaxSize(maxsz)
        /\ FdMaxLen = NewFdMaxLen(maxsz)
        /\ lock = NoThread
        /\ flk = NoThread
        /\ fls = [l \in Levels |-> NoFe]
        /\ lk = [l \in Levels |-> NoThread]
        /\ names = IF pre < 0 THEN NoNames
                   ELSE [NoNames EXCEPT !["a.log"] = [@ EXCEPT ![Base] = 1]]
        /\ isize = IF pre < 0 THEN << >> ELSE <<pre>>
        /\ dirs = IF pre < 0 THEN {} ELSE {"a.log"}
        /\ sink = [w \in Writers |-> 0]
        /\ pc = [t \in Threads |-> "idle"]
        /\ lvl = [t \in Threads |-> "error"]
        /\ dst = [t \in Threads |-> NoPath]
        /\ msg = [t \in Threads |-> 0]
        /\ ret = [t \in Threads |-> "none"]
        /\ fires = 0
        /\ faults = 0
        /\ rolls = 0
        /\ rotated = [p \in Paths |-> << >>]
        /\ openSize = [l \in Levels |-> 0]
        /\ written = [l \in Levels |-> 0]
        /\ rolled = [t \in Threads |-> FALSE]

\* ------------------------------------------------------------------ Fire
Registered(level) == fls[level].path # NoPath

\* A thread calls Fire with an entry of some level and blocks on hook.lock.
\* The threads are interchangeable: t2 calls only while t1 is in a call.
FireCall(t) ==
    /\ pc[t] = "idle"
    /\ fires < MaxFires
    /\ t = "t1" \/ pc["t1"] # "idle"
    /\ \E level \in Levels : lvl' = [lvl EXCEPT ![t] = level]
    /\ pc' = [pc EXCEPT ![t] = "fire_lock"]
    /\ fires' = fires + 1
    /\ rolled' = [rolled EXCEPT ![t] = FALSE]
    /\ UNCHANGED <<hookVars, lockVars, fls, fsVars, sink, dst, msg, ret,
                   faults, preSize, rolls, rotated, openSize, written>>

\* An entry into Fire that does not wait for hook.lock.
FireLockNoWait(t) ==
    /\ pc[t] = "fire_lock"
    /\ lock' = t
    /\ pc' = [pc EXCEPT ![t] = "dispatch"]
    /\ UNCHANGED <<hookVars, flk, lk, fls, fsVars, sink, lvl, dst, msg, ret, histVars>>

\* hook.lock.Lock()
FireLock(t) ==
    /\ pc[t] = "fire_lock"
    /\ lock = NoThread
    /\ lock' = t
    /\ pc' = [pc EXCEPT ![t] = "dispatch"]
    /\ UNCHANGED <<hookVars, flk, lk, fls, fsVars, sink, lvl, dst, msg, ret, histVars>>

\* A branch that prefers the paths to the writers.
FireDispatchPathFirst(t) ==
    /\ pc[t] = "dispatch"
    /\ IF pathsSet \/ hasDefaultPath
         THEN /\ pc' = [pc EXCEPT ![t] = "fw_lock_fls"]
              /\ ret' = ret
         ELSE IF writersSet \/ hasDefaultWriter
           THEN /\ pc' = [pc EXCEPT ![t] = "io_resolve"]
                /\ ret' = ret
           ELSE /\ pc' = [pc EXCEPT ![t] = "fire_ret"]
                /\ ret' = [ret EXCEPT ![t] = "nil"]
    /\ UNCHANGED <<hookVars, lockVars, fls, fsVars, sink, lvl, dst, msg, histVars>>

\* The branch of Fire: ioWrite, fileWrite or nothing.
FireDispatch(t) ==
    /\ pc[t] = "dispatch"
    /\ IF writersSet \/ hasDefaultWriter
         THEN /\ pc' = [pc EXCEPT ![t] = "io_resolve"]
              /\ ret' = ret
         ELSE IF pathsSet \/ hasDefaultPath
           THEN /\ pc' = [pc EXCEPT ![t] = "fw_lock_fls"]
                /\ ret' = ret
           ELSE /\ pc' = [pc EXCEPT ![t] = "fire_ret"]
                /\ ret' = [ret EXCEPT ![t] = "nil"]
    /\ UNCHANGED <<hookVars, lockVars, fls, fsVars, sink, lvl, dst, msg, histVars>>

\* defer hook.lock.Unlock(), and the return of Fire.
FireReturn(t) ==
    /\ pc[t] = "fire_ret"
    /\ lock' = IF lock = t THEN NoThread ELSE lock
    /\ pc' = [pc EXCEPT ![t] = "idle"]
    /\ dst' = [dst EXCEPT ![t] = NoPath]
    /\ msg' = [msg EXCEPT ![t] = 0]
    /\ ret' = [ret EXCEPT ![t] = "none"]
    /\ UNCHANGED <<hookVars, flk, lk, fls, fsVars, sink, lvl, histVars>>

\* --------------------------------------------------------------- ioWrite
\* The writer lookup of ioWrite; a level without a writer is dropped.
IoResolve(t) ==
    /\ pc[t] = "io_resolve"
    /\ LET writer == ResolveWriter(lvl[t]) IN
       IF writer = NoWriter
         THEN /\ pc' = [pc EXCEPT ![t] = "fire_ret"]
              /\ ret' = [ret EXCEPT ![t] = "nil"]
              /\ dst' = dst
         ELSE /\ pc' = [pc EXCEPT ![t] = "io_format"]
              /\ ret' = ret
              /\ dst' = [dst EXCEPT ![t] = writer]
    /\ UNCHANGED <<hookVars, lockVars, fls, fsVars, sink, lvl, msg, histVars>>

\* hook.formatter.Format(entry) in ioWrite.
IoFormat(t) ==
    /\ pc[t] = "io_format"
    /\ \/ /\ \E n \in RecSizes : msg' = [msg EXCEPT ![t] = n]
          /\ pc' = [pc EXCEPT ![t] = "io_write"]
          /\ UNCHANGED <<ret, faults>>
       \/ /\ faults < MaxFaults
          /\ faults' = faults + 1
          /\ pc' = [pc EXCEPT ![t] = "fire_ret"]
          /\ ret' = [ret EXCEPT ![t] = "err"]
          /\ msg' = msg
    /\ UNCHANGED <<hookVars, lockVars, fls, fsVars, sink, lvl, dst,
                   fires, preSize, rolls, rotated, openSize, written, rolled>>

\* writer.Write(msg) in ioWrite; its error is returned.
IoWrite(t) ==
    /\ pc[t] = "io_write"
    /\ \/ /\ sink' = [sink EXCEPT ![dst[t]] = @ + msg[t]]
          /\ ret' = [ret EXCEPT ![t] = "nil"]
          /\ faults' = faults
       \/ /\ faults < MaxFaults
          /\ faults' = faults + 1
          /\ \E n \in 0..(msg[t] - 1) : sink' = [sink EXCEPT ![dst[t]] = @ + n]
          /\ ret' = [ret EXCEPT ![t] = "err"]
    /\ pc' = [pc EXCEPT ![t] = "fire_ret"]
    /\ UNCHANGED <<hookVars, lockVars, fls, fsVars, lvl, dst, msg,
                   fires, preSize, rolls, rotated, openSize, written, rolled>>

\* -------------------------------------------------------------- fileWrite
\* hook.flk.Lock() before the registry lookup.
FwLockFls(t) ==
    /\ pc[t] = "fw_lock_fls"
    /\ flk = NoThread
    /\ flk' = t
    /\ pc' = [pc EXCEPT ![t] = "fw_get"]
    /\ UNCHANGED <<hookVars, lock, lk, fls, fsVars, sink, lvl, dst, msg, ret, histVars>>

\* fe, ok := hook.fls[entry.Level]; hook.flk.Unlock()
FwGet(t) ==
    /\ pc[t] = "fw_get"
    /\ flk' = NoThread
    /\ pc' = [pc EXCEPT ![t] = IF Registered(lvl[t]) THEN "fc_lock" ELSE "fw_resolve"]
    /\ UNCHANGED <<hookVars, lock, lk, fls, fsVars, sink, lvl, dst, msg, ret, histVars>>

\* No handle for the level: resolve its path (none: the record is dropped),
\* os.MkdirAll the directory and build the lfsFile.
FwResolve(t) ==
    /\ pc[t] = "fw_resolve"
    /\ LET path == ResolvePath(lvl[t]) IN
       IF path = NoPath
         THEN /\ pc' = [pc EXCEPT ![t] = "fire_ret"]
              /\ ret' = [ret EXCEPT ![t] = "nil"]
              /\ UNCHANGED <<dst, dirs>>
         ELSE /\ pc' = [pc EXCEPT ![t] = "fw_lock_put"]
              /\ dst' = [dst EXCEPT ![t] = path]
              /\ dirs' = dirs \cup {path}
              /\ ret' = ret
    /\ UNCHANGED <<hookVars, lockVars, fls, names, isize, sink, lvl, msg, histVars>>

\* hook.flk.Lock() before the registry insert.
FwLockPut(t) ==
    /\ pc[t] = "fw_lock_put"
    /\ flk = NoThread
    /\ flk' = t
    /\ pc' = [pc EXCEPT ![t] = "fw_put"]
    /\ UNCHANGED <<hookVars, lock, lk, fls, fsVars, sink, lvl, dst, msg, ret, histVars>>

\* An insert after which the record is formatted before the file is checked.
FwPutThenFormat(t) ==
    /\ pc[t] = "fw_put"
    /\ fls' = [fls EXCEPT ![lvl[t]] = [path |-> dst[t], fd |-> NilFd, ln |-> 0]]
    /\ flk' = NoThread
    /\ openSize' = [openSize EXCEPT ![lvl[t]] = 0]
    /\ written' = [written EXCEPT ![lvl[t]] = 0]
    /\ pc' = [pc EXCEPT ![t] = "fw_format"]
    /\ UNCHANGED <<hookVars, lock, lk, fsVars, sink, lvl, dst, msg, ret,
                   fires, faults, preSize, rolls, rotated, rolled>>

\* hook.fls[entry.Level] = fe; hook.flk.Unlock()
FwPut(t) ==
    /\ pc[t] = "fw_put"
    /\ fls' = [fls EXCEPT ![lvl[t]] = [path |-> dst[t], fd |-> NilFd, ln |-> 0]]
    /\ flk' = NoThread
    /\ openSize' = [openSize EXCEPT ![lvl[t]] = 0]
    /\ written' = [written EXCEPT ![lvl[t]] = 0]
    /\ pc' = [pc EXCEPT ![t] = "fc_lock"]
    /\ UNCHANGED <<hookVars, lock, lk, fsVars, sink, lvl, dst, msg, ret,
                   fires, faults, preSize, rolls, rotated, rolled>>

\* --------------------------------------------------------------- fileCheck
\* fe.lk.Lock()
FcLock(t) ==
    /\ pc[t] = "fc_lock"
    /\ lk[lvl[t]] = NoThread
    /\ lk' = [lk EXCEPT ![lvl[t]] = t]
    /\ pc' = [pc EXCEPT ![t] = "fc_loop"]
    /\ UNCHANGED <<hookVars, lock, flk, fls, fsVars, sink, lvl, dst, msg, ret, histVars>>

\* A check that never reads the size of the file it opens.
StatSizeZero(path) == 0

\* The size os.Stat reads from the base path, 0 when there is no file.
StatSize(path) == IF Exists(names, path, Base) THEN isize[names[path][Base]] ELSE 0

\* An open whose error is not looked at: the check ends as if the file were open.
FcOpenErrorIgnored(t) ==
    LET fe == fls[lvl[t]] IN
    /\ pc[t] = "fc_loop"
    /\ fe.fd = NilFd
    /\ openSize' = [openSize EXCEPT ![lvl[t]] = StatSize(fe.path)]
    /\ written' = [written EXCEPT ![lvl[t]] = 0]
    /\ \/ /\ IF Exists(names, fe.path, Base)
               THEN /\ fls' = [fls EXCEPT ![lvl[t]].ln = StatSize(fe.path),
                                          ![lvl[t]].fd = names[fe.path][Base]]
                    /\ UNCHANGED <<names, isize>>
               ELSE /\ isize' = Append(isize, 0)
                    /\ names' = [names EXCEPT ![fe.path] = [@ EXCEPT ![Base] = Len(isize) + 1]]
                    /\ fls' = [fls EXCEPT ![lvl[t]].ln = 0,
                                          ![lvl[t]].fd = Len(isize) + 1]
          /\ UNCHANGED <<pc, ret, lk, faults>>
       \/ /\ faults < MaxFaults
          /\ faults' = faults + 1
          /\ fls' = [fls EXCEPT ![lvl[t]].ln = StatSize(fe.path)]
          /\ lk' = [lk EXCEPT ![lvl[t]] = NoThread]
          /\ pc' = [pc EXCEPT ![t] = "fw_format"]
          /\ UNCHANGED <<names, isize, ret>>
    /\ UNCHANGED <<hookVars, lock, flk, dirs, sink, lvl, dst, msg,
                   fires, preSize, rolls, rotated, rolled>>

\* Loop iteration with fe.fd == nil: read the size, open (creating) the file.
\* A failing open returns the error with the handle still closed.
FcOpen(t) ==
    LET fe == fls[lvl[t]] IN
    /\ pc[t] = "fc_loop"
    /\ fe.fd = NilFd
    /\ openSize' = [openSize EXCEPT ![lvl[t]] = StatSize(fe.path)]
    /\ written' = [written EXCEPT ![lvl[t]] = 0]
    /\ \/ /\ IF Exists(names, fe.path, Base)
               THEN /\ fls' = [fls EXCEPT ![lvl[t]].ln = StatSize(fe.path),
                                          ![lvl[t]].fd = names[fe.path][Base]]
                    /\ UNCHANGED <<names, isize>>
               ELSE /\ isize' = Append(isize, 0)
                    /\ names' = [names EXCEPT ![fe.path] = [@ EXCEPT ![Base] = Len(isize) + 1]]
                    /\ fls' = [fls EXCEPT ![lvl[t]].ln = 0,
                                          ![lvl[t]].fd = Len(isize) + 1]
          /\ UNCHANGED <<pc, ret, lk, faults>>
       \/ /\ faults < MaxFaults
          /\ faults' = faults + 1
          /\ fls' = [fls EXCEPT ![lvl[t]].ln = StatSize(fe.path)]
          /\ lk' = [lk EXCEPT ![lvl[t]] = NoThread]
          /\ pc' = [pc EXCEPT ![t] = "fire_ret"]
          /\ ret' = [ret EXCEPT ![t] = "err"]
          /\ UNCHANGED <<names, isize>>
    /\ UNCHANGED <<hookVars, lock, flk, dirs, sink, lvl, dst, msg,
                   fires, preSize, rolls, rotated, rolled>>

\* A limit test that also fires at the limit itself.
OverSizeOrEqual(fe) == fe.ln >= FdMaxSize

\* fe.ln > c.FdMaxSize
OverSize(fe) == fe.ln > FdMaxSize

\* Loop iteration with an open file over the size limit: close it and rename
\* the base path into the backup chain.  No error of a rename is looked at.
FcRollOver(t) ==
    LET fe == fls[lvl[t]]
        full == fileBakLen(names, fe.path, FdMaxLen) >= FdMaxLen IN
    /\ pc[t] = "fc_loop"
    /\ fe.fd # NilFd
    /\ OverSize(fe)
    /\ \E rmOk \in BOOLEAN, mvBad \in SUBSET (1..(FdMaxLen - 1)), baseOk \in BOOLEAN :
          LET bad == (IF rmOk THEN 0 ELSE 1) + Cardinality(mvBad) + (IF baseOk THEN 0 ELSE 1)
              moved == baseOk /\ Exists(names, fe.path, Base) IN
          /\ faults + bad <= MaxFaults
          /\ full \/ (rmOk /\ mvBad = {})
          /\ faults' = faults + bad
          /\ names' = RollOverNames(names, fe.path, FdMaxLen, rmOk, mvBad, baseOk)
          /\ rotated' = IF moved
                          THEN [rotated EXCEPT ![fe.path] = Append(@, names[fe.path][Base])]
                          ELSE rotated
          /\ rolled' = [rolled EXCEPT ![t] = moved]
    /\ fls' = [fls EXCEPT ![lvl[t]].fd = NilFd]
    /\ rolls' = rolls + 1
    /\ UNCHANGED <<hookVars, lockVars, isize, dirs, sink, threadVars,
                   fires, preSize, openSize, written>>

\* A break that leaves fe.lk locked for the format and the write.
FcBreakKeepsLock(t) ==
    LET fe == fls[lvl[t]] IN
    /\ pc[t] = "fc_loop"
    /\ fe.fd # NilFd
    /\ ~OverSize(fe)
    /\ pc' = [pc EXCEPT ![t] = "fw_format"]
    /\ UNCHANGED <<hookVars, lockVars, fls, fsVars, sink, lvl, dst, msg, ret, histVars>>

\* Loop iteration with an open file within the limit: break, return nil.
FcBreak(t) ==
    LET fe == fls[lvl[t]] IN
    /\ pc[t] = "fc_loop"
    /\ fe.fd # NilFd
    /\ ~OverSize(fe)
    /\ lk' = [lk EXCEPT ![lvl[t]] = NoThread]
    /\ pc' = [pc EXCEPT ![t] = "fw_format"]
    /\ UNCHANGED <<hookVars, lock, flk, fls, fsVars, sink, lvl, dst, msg, ret, histVars>>

\* hook.formatter.Format(entry) in fileWrite, after fileCheck returned nil.
FwFormat(t) ==
    /\ pc[t] = "fw_format"
    /\ \/ /\ \E n \in RecSizes : msg' = [msg EXCEPT ![t] = n]
          /\ pc' = [pc EXCEPT ![t] = "fw_write"]
          /\ UNCHANGED <<ret, faults>>
       \/ /\ faults < MaxFaults
          /\ faults' = faults + 1
          /\ pc' = [pc EXCEPT ![t] = "fire_ret"]
          /\ ret' = [ret EXCEPT ![t] = "err"]
          /\ msg' = msg
    /\ UNCHANGED <<hookVars, lockVars, fls, fsVars, sink, lvl, dst,
                   fires, preSize, rolls, rotated, openSize, written, rolled>>

\* The bytes fe.fd.Write(msg) may report written: all of them, or fewer on a
\* failing write; a nil descriptor writes nothing.
WriteCounts(fe, len, mayFail) ==
    IF fe.fd = NilFd THEN {0}
    ELSE IF mayFail THEN 0..len
    ELSE {len}

\* An update by the bytes handed to Write instead of the bytes written.
LnAfterWriteRequested(ln, n, len) == ln + len

\* An update that is left out.
LnAfterWriteForgotten(ln, n, len) == ln

\* fe.ln += int64(n): the tracked length after a write of len bytes that wrote n.
LnAfterWrite(ln, n, len) == ln + n

\* n, _ := fe.fd.Write(msg); fe.ln += int64(n); return nil
FwWrite(t) ==
    LET fe == fls[lvl[t]] IN
    /\ pc[t] = "fw_write"
    /\ \E n \in WriteCounts(fe, msg[t], faults < MaxFaults) :
          /\ faults' = IF n < msg[t] /\ fe.fd # NilFd THEN faults + 1 ELSE faults
          /\ isize' = IF fe.fd = NilFd THEN isize ELSE [isize EXCEPT ![fe.fd] = @ + n]
          /\ fls' = [fls EXCEPT ![lvl[t]].ln = LnAfterWrite(@, n, msg[t])]
          /\ written' = [written EXCEPT ![lvl[t]] = @ + n]
    /\ pc' = [pc EXCEPT ![t] = "fire_ret"]
    /\ ret' = [ret EXCEPT ![t] = "nil"]
    /\ UNCHANGED <<hookVars, lockVars, names, dirs, sink, lvl, dst, msg,
                   fires, preSize, rolls, rotated, openSize, rolled>>

\* ---------------------------------------------------------------- setters
\* SetDefaultPath, under hook.lock.
SetDefaultPath ==
    /\ lock = NoThread
    /\ \E p \in SetPaths : defaultPath' = p
    /\ hasDefaultPath' = TRUE
    /\ UNCHANGED <<paths, pathsSet, writers, writersSet, defaultWriter, hasDefaultWriter,
                   FdMaxLen, FdMaxSize, lockVars, fls, fsVars, sink, threadVars,
                   fires, faults, preSize, rolls, rotated, openSize, written, rolled>>

\* SetDefaultWriter, under hook.lock.
SetDefaultWriter ==
    /\ lock = NoThread
    /\ \E w \in SetWriters : defaultWriter' = w
    /\ hasDefaultWriter' = TRUE
    /\ UNCHANGED <<paths, pathsSet, writers, writersSet, defaultPath, hasDefaultPath,
                   FdMaxLen, FdMaxSize, lockVars, fls, fsVars, sink, threadVars,
                   fires, faults, preSize, rolls, rotated, openSize, written, rolled>>

\* ------------------------------------------------------------------ system
Next ==
    \/ \E t \in Threads : FireCall(t)
    \/ \E t \in Threads : FireLock(t)
    \/ \E t \in Threads : FireDispatch(t)
    \/ \E t \in Threads : FireReturn(t)
    \/ \E t \in Threads : IoResolve(t)
    \/ \E t \in Threads : IoFormat(t)
    \/ \E t \in Threads : IoWrite(t)
    \/ \E t \in Threads : FwLockFls(t)
    \/ \E t \in Threads : FwGet(t)
    \/ \E t \in Threads : FwResolve(t)
    \/ \E t \in Threads : FwLockPut(t)
    \/ \E t \in Threads : FwPut(t)
    \/ \E t \in Threads : FcLock(t)
    \/ \E t \in Threads : FcOpen(t)
    \/ \E t \in Threads : FcRollOver(t)
    \/ \E t \in Threads : FcBreak(t)
    \/ \E t \in Threads : FwFormat(t)
    \/ \E t \in Threads : FwWrite(t)
    \/ SetDefaultPath
    \/ SetDefaultWriter

Spec == Init /\ [][Next]_vars

\* ------------------------------------------------- a directory that refuses
\* The roll-over branch of fileCheck where every os.Rename and os.RemoveAll
\* on the path fails, for as long as the hook runs (a directory that allows
\* no rename, a file that another process keeps locked), while os.Stat and
\* os.OpenFile go on working.  The refusals are not counted in faults and
\* rolls, which count the calls of Spec.
FcRollOverDenied(t) ==
    LET fe == fls[lvl[t]] IN
    /\ pc[t] = "fc_loop"
    /\ fe.fd # NilFd
    /\ OverSize(fe)
    /\ names' = RollOverNames(names, fe.path, FdMaxLen, FALSE, 1..(FdMaxLen - 1), FALSE)
    /\ fls' = [fls EXCEPT ![lvl[t]].fd = NilFd]
    /\ rolled' = [rolled EXCEPT ![t] = FALSE]
    /\ UNCHANGED <<hookVars, lockVars, isize, dirs, sink, threadVars,
                   fires, faults, preSize, rolls, rotated, openSize, written>>

\* The hook of Spec on such a directory.
LiveNext ==
    \/ \E t \in Threads : FireCall(t)
    \/ \E t \in Threads : FireLock(t)
    \/ \E t \in Threads : FireDispatch(t)
    \/ \E t \in Threads : FireReturn(t)
    \/ \E t \in Threads : IoResolve(t)
    \/ \E t \in Threads : IoFormat(t)
    \/ \E t \in Threads : IoWrite(t)
    \/ \E t \in Threads : FwLockFls(t)
    \/ \E t \in Threads : FwGet(t)
    \/ \E t \in Threads : FwResolve(t)
    \/ \E t \in Threads : FwLockPut(t)
    \/ \E t \in Threads : FwPut(t)
    \/ \E t \in Threads : FcLock(t)
    \/ \E t \in Threads : FcOpen(t)
    \/ \E t \in Threads : FcRollOverDenied(t)
    \/ \E t \in Threads : FcBreak(t)
    \/ \E t \in Threads : FwFormat(t)
    \/ \E t \in Threads : FwWrite(t)
    \/ SetDefaultPath
    \/ SetDefaultWriter

\* The steps of a thread inside Fire that wait for no lock.
ThreadStep(t) ==
    \/ FireDispatch(t) \/ FireReturn(t)
    \/ IoResolve(t) \/ IoFormat(t) \/ IoWrite(t)
    \/ FwGet(t) \/ FwResolve(t) \/ FwPut(t)
    \/ FcOpen(t) \/ FcRollOverDenied(t) \/ FcBreak(t)
    \/ FwFormat(t) \/ FwWrite(t)
\* The Lock() calls of a thread inside Fire.
LockStep(t) == FireLock(t) \/ FwLockFls(t) \/ FwLockPut(t) \/ FcLock(t)

\* Scheduling: a goroutine that can run does run (the Go scheduler preempts),
\* and a goroutine blocked in Lock() gets a mutex that is released again and
\* again (sync.Mutex hands the lock to a waiter that has starved).
LiveSpec ==
    /\ Init
    /\ [][LiveNext]_vars
    /\ \A t \in Threads : WF_vars(ThreadStep(t)) /\ SF_vars(LockStep(t))

\* ================================================================ claims
\* The levels whose handle is on a path.
Handles(path) == {l \in Levels : fls[l].path = path}
\* The suffixes of the backups of a path that exist.
Backups(path) == {i \in 1..MaxSuffix : Exists(names, path, i)}
Min(a, b) == IF a <= b THEN a ELSE b
\* This step renames the base file of a path into the backup chain.
RollsOver(path) == Len(rotated'[path]) = Len(rotated[path]) + 1

\* C1: every path has at most FdMaxLen backup files, in every reachable state,
\* and no backup with a suffix beyond FdMaxLen exists.
C1_BackupsBounded ==
    \A p \in Paths :
        /\ Cardinality(Backups(p)) <= FdMaxLen
        /\ \A i \in Backups(p) : i <= FdMaxLen

\* C1 witness: a roll-over has happened on a full chain (more files were
\* rotated than the chain holds) and the chain is full.
C1_Witness ==
    \E p \in Paths :
        /\ Len(rotated[p]) > FdMaxLen
        /\ Cardinality(Backups(p)) = FdMaxLen
        /\ FdMaxLen = MaxLenArg

\* C2 as claimed: after every roll-over suffix 1 holds the file rotated by it
\* and every backup that was at suffix i is at suffix i+1.
C2_NewestAtOne ==
    [][\A p \in Paths :
          RollsOver(p) =>
              /\ names'[p][1] = names[p][Base]
              /\ \A i \in 1..(FdMaxLen - 1) :
                    Exists(names, p, i) => names'[p][i + 1] = names[p][i]]_vars

\* The backups of a path are in rotation order, oldest at suffix 1, and the
\* highest suffix in use holds the file rotated last.
OldestFirst(p) ==
    /\ \A i, j \in Backups(p) :
          i < j => \E a, b \in 1..Len(rotated[p]) :
                      a < b /\ rotated[p][a] = names[p][i] /\ rotated[p][b] = names[p][j]
    /\ Backups(p) # {} =>
          \A i \in Backups(p) :
              (\A j \in Backups(p) : j <= i) => names[p][i] = rotated[p][Len(rotated[p])]

\* C2 as amended: a roll-over in which no filesystem call fails puts the base
\* file behind the k backups found (suffix k+1) when k < FdMaxLen and leaves
\* them in place; on a full chain it deletes the backup at suffix 1, moves the
\* backup at suffix i+1 to suffix i and puts the base file at suffix FdMaxLen.
\* While no call has failed the suffixes order the backups from oldest (1) to
\* newest (highest).
C2_OldestAtOne ==
    /\ [][\A p \in Paths :
            RollsOver(p) /\ faults' = faults =>
                LET k == fileBakLen(names, p, FdMaxLen) IN
                IF k < FdMaxLen
                  THEN /\ names'[p][k + 1] = names[p][Base]
                       /\ \A i \in 1..k : names'[p][i] = names[p][i]
                  ELSE /\ names'[p][FdMaxLen] = names[p][Base]
                       /\ \A i \in 1..(FdMaxLen - 1) : names'[p][i] = names[p][i + 1]]_vars
    /\ [](\A p \in Paths : faults = 0 => OldestFirst(p))

\* C2 witness: a second roll-over has put the newest file at suffix 2, behind
\* the older one at suffix 1.
C2_Witness ==
    \E p \in Paths :
        /\ faults = 0
        /\ Len(rotated[p]) >= 2
        /\ FdMaxLen >= 2
        /\ names[p][2] = rotated[p][Len(rotated[p])]
        /\ names[p][1] = rotated[p][Len(rotated[p]) - 1]

\* C3: while no filesystem call has failed, after n roll-overs of a path that
\* started without backups the backups are exactly the min(n, FdMaxLen) files
\* rotated last, at the suffixes 1..min(n, FdMaxLen), so that a roll-over on
\* a full chain has dropped the file rotated first and no other.
C3_ChainIsLastRotated ==
    \A p \in Paths :
        faults = 0 =>
            LET n == Len(rotated[p])
                m == Min(n, FdMaxLen) IN
            /\ Backups(p) = 1..m
            /\ \A i \in 1..m : names[p][i] = rotated[p][n - m + i]

\* C3 witness: without any failure, one more file than the chain holds has
\* been rotated.
C3_Witness ==
    \E p \in Paths :
        /\ faults = 0
        /\ FdMaxLen = MaxLenArg
        /\ Len(rotated[p]) = FdMaxLen + 1
        /\ Backups(p) = 1..FdMaxLen

\* The handle of the level a thread fires at.
Fe(t) == fls[lvl[t]]
\* The size of the file at suffix i of a path.
SizeAt(path, i) == isize[names[path][i]]

\* C4: a step takes the roll-over branch if and only if it is the step of a
\* thread whose handle is open with a tracked length above FdMaxSize when the
\* check runs (a length equal to FdMaxSize breaks out of the check), and once
\* a roll-over has renamed the base path away the reopened base file is a
\* fresh empty file and the tracked length is 0.
C4_RollOverIffOverSize ==
    /\ [][(rolls' # rolls) <=>
            \E t \in Threads :
                /\ pc[t] = "fc_loop"
                /\ Fe(t).fd # NilFd
                /\ Fe(t).ln > FdMaxSize
                /\ (pc'[t] # pc[t] \/ fls' # fls)]_vars
    /\ [](\A t \in Threads :
            rolled[t] /\ pc[t] \in {"fc_loop", "fw_format"} /\ Fe(t).fd # NilFd =>
                /\ Fe(t).ln = 0
                /\ names[Fe(t).path][Base] = Fe(t).fd
                /\ isize[Fe(t).fd] = 0)

\* C4 witness: on a path that has been rolled over, a check has returned
\* without a roll-over for a tracked length equal to FdMaxSize.
C4_Witness ==
    \E t \in Threads :
        /\ pc[t] = "fw_format"
        /\ ~rolled[t]
        /\ Fe(t).ln = FdMaxSize
        /\ Len(rotated[Fe(t).path]) > 0

\* C5 as claimed: when a Fire returns, the tracked length of its handle is
\* the number of bytes written through the handle since its last roll-over
\* or since it was created (stated for the Fires that return nil while no
\* filesystem call has failed).
C5_LenIsWritten ==
    \A t \in Threads :
        pc[t] = "fire_ret" /\ ret[t] = "nil" /\ faults = 0 /\ Registered(lvl[t]) =>
            Fe(t).ln = written[lvl[t]]

\* C5 as amended: the tracked length of a handle is the size the base file
\* had when the handle last opened it (0 when there was no file, as after a
\* roll-over) plus the bytes actually written through the handle since.
C5_LenIsOpenSizePlusWritten ==
    \A l \in Levels :
        Registered(l) => fls[l].ln = openSize[l] + written[l]

\* C5 witness: a Fire returns after a short write (1 byte of 2) to a file
\* that held bytes when the handle opened it.
C5_Witness ==
    \E t \in Threads :
        /\ pc[t] = "fire_ret"
        /\ Registered(lvl[t])
        /\ openSize[lvl[t]] > 0
        /\ msg[t] = 2
        /\ written[lvl[t]] = 1

\* An inode that held more than FdMaxSize plus one record before the hook
\* was constructed.
Foreign(ino) == ino = 1 /\ preSize > FdMaxSize + MaxRecSize

\* C6 as claimed: on a path written through one handle the base file holds
\* at most FdMaxSize bytes when a check returns, at most FdMaxSize plus one
\* record when a Fire returns, and no backup holds more than that (stated
\* for the states in which no filesystem call has failed).
C6_SizesBounded ==
    \A p \in Paths :
        Cardinality(Handles(p)) = 1 /\ faults = 0 =>
            /\ \A t \in Threads :
                  pc[t] = "fw_format" /\ Fe(t).path = p => SizeAt(p, Base) <= FdMaxSize
            /\ \A t \in Threads :
                  pc[t] = "fire_ret" /\ Fe(t).path = p /\ Exists(names, p, Base) =>
                      SizeAt(p, Base) <= FdMaxSize + MaxRecSize
            /\ \A i \in Backups(p) : SizeAt(p, i) <= FdMaxSize + MaxRecSize

\* C6 as amended: the same bounds for every file but one that already held
\* more than FdMaxSize plus one record when the hook was constructed; such a
\* file stays at the base path when the first open fails and is rotated
\* into the chain as it is.
C6_OwnSizesBounded ==
    \A p \in Paths :
        Cardinality(Handles(p)) = 1 =>
            /\ \A t \in Threads :
                  pc[t] = "fw_format" /\ Fe(t).path = p => SizeAt(p, Base) <= FdMaxSize
            /\ \A t \in Threads :
                  /\ pc[t] = "fire_ret" /\ Fe(t).path = p /\ Exists(names, p, Base)
                  /\ ~Foreign(names[p][Base])
                  => SizeAt(p, Base) <= FdMaxSize + MaxRecSize
            /\ \A i \in Backups(p) :
                  ~Foreign(names[p][i]) => SizeAt(p, i) <= FdMaxSize + MaxRecSize

\* C6 witness: a backup written through the only handle of its path holds
\* FdMaxSize plus one record.
C6_Witness ==
    \E p \in Paths : \E i \in Backups(p) :
        /\ Cardinality(Handles(p)) = 1
        /\ ~Foreign(names[p][i])
        /\ preSize < 0
        /\ SizeAt(p, i) = FdMaxSize + MaxRecSize

\* C7: a handle that goes from closed to open starts with the size of the
\* file found at its path as tracked length (0 when there is none).  In the
\* first Fire of a hook on a.log, where a file of preSize bytes exists: if
\* preSize > FdMaxSize that file is the backup a.log.1 and the base file is
\* fresh when the record is written, otherwise the record is appended to it.
C7_OpenReadsSize ==
    /\ [][\A l \in Levels :
            Registered(l) /\ fls[l].fd = NilFd /\ fls'[l].fd # NilFd =>
                fls'[l].ln = IF Exists(names, fls[l].path, Base)
                               THEN SizeAt(fls[l].path, Base) ELSE 0]_vars
    /\ [](\A t \in Threads :
            fires = 1 /\ preSize >= 0 /\ Fe(t).path = "a.log" =>
                /\ pc[t] = "fw_write" =>
                      IF preSize > FdMaxSize
                        THEN /\ names["a.log"][1] = 1
                             /\ isize[1] = preSize
                             /\ Fe(t).fd # 1
                             /\ names["a.log"][Base] = Fe(t).fd
                             /\ isize[Fe(t).fd] = 0
                             /\ Fe(t).ln = 0
                        ELSE /\ Fe(t).fd = 1
                             /\ names["a.log"][Base] = 1
                             /\ Fe(t).ln = preSize
                             /\ Backups("a.log") = {}
                /\ pc[t] = "fire_ret" /\ ret[t] = "nil" /\ faults = 0 =>
                      IF preSize > FdMaxSize
                        THEN isize[1] = preSize /\ SizeAt("a.log", Base) = msg[t]
                        ELSE isize[1] = preSize + msg[t])

\* C7 witness: the first Fire is about to write its record after the check
\* rotated the file it found over the limit.
C7_Witness ==
    \E t \in Threads :
        /\ fires = 1
        /\ pc[t] = "fw_write"
        /\ Fe(t).path = "a.log"
        /\ preSize > FdMaxSize
        /\ names["a.log"][1] = 1

\* A thread is inside its check / roll-over / write sequence (format and
\* write for an io.Writer).
InSeq(t) == pc[t] \in {"fc_loop", "fw_format", "fw_write", "io_format", "io_write"}
\* The destination of the sequence a thread is inside.
Dest(t) == IF pc[t] \in {"io_format", "io_write"} THEN dst[t] ELSE Fe(t).path
\* The destination the record of a thread waiting for hook.lock resolves to.
WillDest(t) ==
    IF writersSet \/ hasDefaultWriter THEN ResolveWriter(lvl[t])
    ELSE IF Registered(lvl[t]) THEN Fe(t).path
    ELSE ResolvePath(lvl[t])

\* C8: two threads are never both inside the check / roll-over / write
\* sequence of one destination: between the threshold check of a thread and
\* the end of its write and length update no other thread rolls over or
\* writes there.
C8_SameDestinationExclusive ==
    \A t1, t2 \in Threads :
        t1 # t2 /\ InSeq(t1) /\ InSeq(t2) => Dest(t1) # Dest(t2)

\* C8 witness: a thread is inside its sequence while another has called
\* Fire with a record for the same destination.
C8_Witness ==
    \E t1, t2 \in Threads :
        /\ t1 # t2
        /\ pc[t1] = "fw_write"
        /\ pc[t2] = "fire_lock"
        /\ WillDest(t2) = Dest(t1)

\* C9 as claimed: a Fire in progress on one destination does not block a
\* Fire on another destination, which can enter.
C9_NotBlocked ==
    \A t1, t2 \in Threads :
        /\ t1 # t2
        /\ InSeq(t1)
        /\ pc[t2] = "fire_lock"
        /\ Dest(t1) \in Paths
        /\ WillDest(t2) \in Paths \ {Dest(t1)}
        => ENABLED FireLock(t2)

\* C9 as amended: two threads are never both inside their sequences, for
\* different destinations either: a thread inside its sequence holds
\* hook.lock, which Fire takes on entry and releases on return, and a Fire
\* for any other destination waits for it.
C9_AllFiresSerialised ==
    /\ \A t \in Threads : InSeq(t) => lock = t
    /\ \A t1, t2 \in Threads :
          t1 # t2 /\ InSeq(t1) /\ InSeq(t2) => Dest(t1) = Dest(t2)
    /\ \A t1, t2 \in Threads :
          t1 # t2 /\ InSeq(t1) /\ pc[t2] = "fire_lock" => ~ENABLED FireLock(t2)

\* C9 witness: a thread is inside its sequence on one file while another
\* waits in Fire with a record for another file.
C9_Witness ==
    \E t1, t2 \in Threads :
        /\ t1 # t2
        /\ pc[t1] = "fw_write"
        /\ pc[t2] = "fire_lock"
        /\ WillDest(t2) \in Paths \ {Dest(t1)}

\* What a Fire that finds no destination must leave alone.
NoEffect == UNCHANGED <<fls, names, isize, dirs, sink>>

NoPathEntry(level) == ~(pathsSet /\ paths[level] # NoPath)
\* Fire takes fileWrite: no writer map and no default writer is set.
PathMode == ~(writersSet \/ hasDefaultWriter)

\* C11 as claimed: a Fire that starts after SetDefaultPath(p) returned, for a
\* level that has no entry in the path map, appends to p whatever was fired
\* before: at the call of a Fire of a path-mode hook whose default path is
\* p, the file the record of the level is bound for (the path of the handle
\* of the level, which Fire writes through when there is one) is p.  Stated
\* for behaviours without a failed call.
C11_DefaultPathTakesEffect ==
    [][\A t \in Threads :
        /\ pc[t] = "idle"
        /\ pc'[t] = "fire_lock"
        /\ PathMode
        /\ hasDefaultPath
        /\ NoPathEntry(lvl'[t])
        /\ faults = 0
        => (IF Registered(lvl'[t]) THEN fls[lvl'[t]].path ELSE defaultPath) = defaultPath]_vars

\* A thread is inside ioWrite / inside fileWrite.
InIoWrite(t) == pc[t] \in {"io_resolve", "io_format", "io_write"}
InFileWrite(t) ==
    pc[t] \in {"fw_lock_fls", "fw_get", "fw_resolve", "fw_lock_put", "fw_put",
               "fc_lock", "fc_loop", "fw_format", "fw_write"}
\* A path (map or default) is configured; a writer (map or default) is configured.
PathsConfigured == pathsSet \/ hasDefaultPath
WritersConfigured == writersSet \/ hasDefaultWriter
\* Bytes have been written through a handle; bytes have reached a writer.
FilesWritten == \E l \in Levels : Registered(l) /\ written[l] > 0
SinksWritten == \E w \in Writers : sink[w] > 0

\* C12 as claimed: a hook never has both a path and a writer configured,
\* and its records never go both to files and to writers.
C12_ExactlyOneMode ==
    /\ ~(PathsConfigured /\ WritersConfigured)
    /\ ~(FilesWritten /\ SinksWritten)

\* C12 as amended: the constructor configures exactly one of the two maps or
\* defaults, and SetDefaultPath / SetDefaultWriter may add the default of the
\* other kind.  The mode is chosen by each Fire: ioWrite exactly when a
\* writer is configured (paths are then ignored), fileWrite otherwise; a
\* configured writer stays configured, so after the first Fire that goes to
\* a writer no Fire goes to a file.
C12_WritersTakePrecedence ==
    /\ [](/\ ~(pathsSet /\ writersSet)
          /\ PathsConfigured \/ WritersConfigured
          /\ \A t \in Threads :
                /\ InIoWrite(t) => WritersConfigured
                /\ InFileWrite(t) => PathsConfigured /\ ~WritersConfigured)
    /\ [][/\ WritersConfigured => WritersConfigured'
          /\ sink' # sink => WritersConfigured
          /\ <<fls, names, isize, dirs>>' # <<fls, names, isize, dirs>> => ~WritersConfigured]_vars

\* C12 witness: a hook with a path and a writer configured has written
\* records to a file and, later, to a writer.
C12_Witness ==
    /\ PathsConfigured
    /\ WritersConfigured
    /\ FilesWritten
    /\ SinksWritten

\* C13 as claimed: a Fire in which the formatter, the open of the file or a
\* write fails returns an error: the step of a thread in which Format,
\* os.OpenFile, writer.Write or fe.fd.Write fails ends its Fire with an error.
C13_FailuresReturned ==
    [][\A t \in Threads :
        /\ pc[t] \in {"io_format", "io_write", "fc_loop", "fw_format", "fw_write"}
        /\ pc'[t] # pc[t]
        /\ faults' > faults
        => pc'[t] = "fire_ret" /\ ret'[t] = "err"]_vars

\* A Fire found the handle of its level in the registry, closed: every Fire
\* leaves fileCheck with the file open or with the error of os.OpenFile, so
\* the last open of that handle failed.
ClosedOnEntry(t) ==
    /\ pc[t] = "fc_lock"
    /\ dst[t] = NoPath
    /\ Registered(lvl[t])
    /\ Fe(t).fd = NilFd

\* C14: a failing open ends the Fire with the error, writes nothing and
\* leaves the handle closed, its lock free.  A Fire that finds the handle
\* closed opens it again: it reads the size of the file at the path (0 when
\* there is none) and opens that file, or returns the error of the open; and
\* a write without failure appends the whole record and returns nil.
C14_FailedOpenRetried ==
    /\ [][\A t \in Threads :
            pc[t] = "fc_loop" /\ pc'[t] = "fire_ret" =>
                /\ ret'[t] = "err"
                /\ Fe(t).fd = NilFd
                /\ fls'[lvl[t]].fd = NilFd
                /\ lk'[lvl[t]] = NoThread
                /\ UNCHANGED <<names, isize, sink>>]_vars
    /\ [][\A t \in Threads :
            ClosedOnEntry(t) /\ pc'[t] # pc[t] =>
                pc'[t] = "fc_loop" /\ fls'[lvl[t]] = fls[lvl[t]]]_vars
    /\ [][\A t \in Threads :
            /\ pc[t] = "fc_loop"
            /\ Fe(t).fd = NilFd
            /\ pc'[t] # pc[t] \/ fls'[lvl[t]] # fls[lvl[t]]
            => \/ pc'[t] = "fire_ret" /\ ret'[t] = "err"
               \/ /\ pc'[t] = "fc_loop"
                  /\ fls'[lvl[t]].fd # NilFd
                  /\ fls'[lvl[t]].fd = names'[Fe(t).path][Base]
                  /\ fls'[lvl[t]].ln = IF Exists(names, Fe(t).path, Base)
                                         THEN SizeAt(Fe(t).path, Base) ELSE 0]_vars
    /\ [][\A t \in Threads :
            pc[t] = "fw_write" /\ pc'[t] # pc[t] /\ faults' = faults =>
                /\ ret'[t] = "nil"
                /\ Fe(t).fd # NilFd
                /\ isize'[Fe(t).fd] = isize[Fe(t).fd] + msg[t]
                /\ fls'[lvl[t]].ln = Fe(t).ln + msg[t]]_vars

\* C14 witness: a Fire is about to run the check of a handle that an earlier
\* Fire registered and failed to open.
C14_Witness ==
    \E t \in Threads :
        /\ ClosedOnEntry(t)
        /\ lock = t
        /\ faults > 0
        /\ fires > 1

\* C15 as claimed: every Fire returns, also when a rename of the roll-over
\* fails: a thread that has entered Fire (it holds hook.lock) reaches the
\* return of Fire.
C15_FireReturns ==
    \A t \in Threads : (pc[t] = "dispatch") ~> (pc[t] = "fire_ret")

\* C16 as claimed: the hook holds one handle per path, also when several
\* levels resolve to the path: no two levels have a handle on the same path.
\* Stated for behaviours without a failed call.
C16_OneHandlePerPath ==
    \A p \in Paths : faults = 0 => Cardinality(Handles(p)) <= 1

\* C17 as claimed: the lock of the handle is held by the firing thread from
\* the check through the roll-over, the format, the append and the update
\* of the tracked length.
C17_HandleLockHeldThroughWrite ==
    \A t \in Threads :
        pc[t] \in {"fc_loop", "fw_format", "fw_write"} => lk[lvl[t]] = t

\* C17 as amended: the lock of the handle is held during the check and the
\* roll-over only, and by nobody else; it is free while the record is
\* formatted and appended and the tracked length is updated.  What the
\* thread holds from the check to the end of the update is hook.lock.
C17_HandleLockCoversCheckOnly ==
    /\ \A t \in Threads :
          /\ pc[t] = "fc_loop" => lk[lvl[t]] = t /\ lock = t
          /\ pc[t] \in {"fw_format", "fw_write"} => lk[lvl[t]] = NoThread /\ lock = t
    /\ \A l \in Levels :
          lk[l] # NoThread => pc[lk[l]] = "fc_loop" /\ lvl[lk[l]] = l

\* C17 witness: a thread whose check rolled the file over is about to append
\* its record, the lock of the handle free.
C17_Witness ==
    \E t \in Threads :
        /\ pc[t] = "fw_write"
        /\ rolled[t]
        /\ lk[lvl[t]] = NoThread
        /\ lock = t

\* The Fire of a thread ends with the error of the formatter in fileWrite
\* (a failing open, the other error of fileWrite, leaves the handle closed).
FormatFailed(t) ==
    /\ pc[t] = "fire_ret"
    /\ ret[t] = "err"
    /\ PathMode
    /\ Registered(lvl[t])
    /\ Fe(t).fd # NilFd

\* C18 as claimed: a Fire whose formatter fails has no file effect: it has
\* opened no file for a handle it created and has rolled no file over.
C18_FormatFailureHasNoFileEffect ==
    \A t \in Threads : FormatFailed(t) => dst[t] = NoPath /\ ~rolled[t]

\* C18 as amended: the record is formatted after the check and before the
\* write.  When Format is called the handle is open on a file within the
\* limit and no record is formatted yet; a failing Format ends the Fire with
\* the error, appends nothing and leaves the handle, its tracked length and
\* the files as the check left them.
C18_CheckBeforeFormat ==
    /\ [](\A t \in Threads :
            /\ pc[t] = "fw_format" => Fe(t).fd # NilFd /\ ~OverSize(Fe(t)) /\ msg[t] = 0
            /\ pc[t] \in {"fc_lock", "fc_loop"} => msg[t] = 0
            /\ pc[t] = "fw_write" => msg[t] \in RecSizes)
    /\ [][\A t \in Threads :
            pc[t] = "fw_format" /\ pc'[t] = "fire_ret" =>
                /\ ret'[t] = "err"
                /\ UNCHANGED <<fls, names, isize, dirs, sink>>]_vars

\* C18 witness: the formatter failed in a Fire whose check had rolled the
\* file over and opened a new one.
C18_Witness ==
    \E t \in Threads :
        /\ FormatFailed(t)
        /\ rolled[t]
        /\ SizeAt(Fe(t).path, Base) = 0

\* C19: from the return of a successful check to the end of the write the
\* descriptor of the handle is open and no step of any thread closes or
\* replaces it; the bytes the write counts are bytes that reached the file
\* of that descriptor.
C19_DescriptorStaysOpen ==
    /\ [](\A t \in Threads :
            pc[t] \in {"fw_format", "fw_write"} => Fe(t).fd # NilFd)
    /\ [][\A t \in Threads :
            /\ pc[t] = "fc_loop" /\ pc'[t] = "fw_format" =>
                  fls'[lvl[t]].fd = Fe(t).fd /\ Fe(t).fd # NilFd
            /\ pc[t] \in {"fw_format", "fw_write"} => fls'[lvl[t]].fd = Fe(t).fd
            /\ pc[t] = "fw_write" /\ pc'[t] # pc[t] =>
                  isize'[Fe(t).fd] - isize[Fe(t).fd] = fls'[lvl[t]].ln - Fe(t).ln]_vars

\* C19 witness: a thread is about to append a record that takes the file
\* over the limit while another thread has called Fire for the same level:
\* its check will close and roll over that descriptor once it is let in.
C19_Witness ==
    \E t1, t2 \in Threads :
        /\ t1 # t2
        /\ pc[t1] = "fw_write"
        /\ pc[t2] = "fire_lock"
        /\ lvl[t2] = lvl[t1]
        /\ Fe(t1).ln + msg[t1] > FdMaxSize

\* A thread inside Fire; the locks a thread holds.
InFire(t) == pc[t] # "idle"
HoldsFlk(t) == flk = t
HoldsLk(t) == \E l \in Levels : lk[l] = t

\* C20 as claimed: no state with a thread inside Fire is a deadlock; the
\* registry lock and the lock of a handle are never held together; a thread
\* that requests hook.lock holds neither of them; and every thread that
\* waits for a lock gets it.
C20_NoDeadlockLocksAcquired ==
    /\ []((\E t \in Threads : InFire(t)) =>
              \E t \in Threads : ENABLED (ThreadStep(t) \/ LockStep(t)))
    /\ [](\A t \in Threads :
            /\ ~(HoldsFlk(t) /\ HoldsLk(t))
            /\ pc[t] = "fc_lock" => ~HoldsFlk(t)
            /\ pc[t] = "fire_lock" => ~HoldsFlk(t) /\ ~HoldsLk(t))
    /\ \A t \in Threads :
          /\ (pc[t] = "fire_lock") ~> (pc[t] = "dispatch")
          /\ (pc[t] = "fw_lock_fls") ~> (pc[t] = "fw_get")
          /\ (pc[t] = "fw_lock_put") ~> (pc[t] = "fw_put")
          /\ (pc[t] = "fc_lock") ~> (pc[t] = "fc_loop")

====
